---- MODULE Spec2Model ----
(***************************************************************************)
(* Discrete-node thermal simulation of a solar collector, a pump, two      *)
(* pipes and a stratified storage tank (ThermalSimulation component).      *)
(*                                                                         *)
(* Numbers.  The program computes in IEEE doubles.  Here a stored          *)
(* temperature is an integer count of 1/UnitsPerDegree degrees Celsius;    *)
(* an expression is evaluated exactly over rationals and rounded to the    *)
(* nearest unit when it is stored in a node, the way every stored double   *)
(* is the rounding of the exact result.  Volumes are counted in 1e-7 m^3.  *)
(***************************************************************************)
EXTENDS Integers, Sequences, FiniteSets, Bags, TLC

VARIABLES
  state,              \* the reactive simulation state of the component
  config,             \* the volumes the module script is evaluated with
  script,             \* the statements of the module script still to run
  interval,           \* the interval timer: "none", "active" or "cleared"
  pending,            \* the tick callbacks in flight, each its statements to run
  error,              \* the last error raised: "none", "ConfigError", "TypeError"
  history,            \* the states before the last operations
  lastOp,             \* the last operation
  log,                \* the statements the last callback has executed
  ticksWhileRunning,  \* the number of ticks delivered while simulationRunning
  inverted            \* some conduction so far has inverted an ordered tank

vars == <<state, config, script, interval, pending, error,
          history, lastOp, log, ticksWhileRunning, inverted>>

(***************************************************************************)
(* Bounds of the model.                                                    *)
(***************************************************************************)
UnitsPerDegree == 20
MaxTicks == 11
MaxTankLen == 5
MaxTemp == 6
MaxChainLen == 3
MaxEarlyTicks == 2
MaxLoopTicks == 4

(***************************************************************************)
(* Arithmetic helpers.                                                     *)
(***************************************************************************)
Abs(x) == IF x < 0 THEN -x ELSE x

Min(a, b) == IF a <= b THEN a ELSE b

RECURSIVE GCD(_, _)
GCD(a, b) == IF b = 0 THEN a ELSE GCD(b, a % b)

RECURSIVE LCMUpTo(_)
LCMUpTo(n) == IF n <= 1 THEN 1
              ELSE LET l == LCMUpTo(n - 1) IN (l * n) \div GCD(l, n)

\* nearest integer to a / b, for b > 0
RoundDiv(a, b) == (2 * a + b) \div (2 * b)

Rat(n, d) == LET g == GCD(Abs(n), d) IN [num |-> n \div g, den |-> d \div g]

RInt(n) == [num |-> n, den |-> 1]

RMul(x, y) ==
  LET g1 == GCD(Abs(x.num), y.den)
      g2 == GCD(Abs(y.num), x.den)
  IN  [num |-> (x.num \div g1) * (y.num \div g2),
       den |-> (x.den \div g2) * (y.den \div g1)]

\* x / y for y > 0
RDiv(x, y) == RMul(x, [num |-> y.den, den |-> y.num])

RSub(x, y) ==
  LET g == GCD(x.den, y.den)
  IN  Rat(x.num * (y.den \div g) - y.num * (x.den \div g),
          (x.den \div g) * y.den)

RRound(x) == RoundDiv(x.num, x.den)

RECURSIVE SumSeq(_)
SumSeq(s) == IF s = <<>> THEN 0 ELSE Head(s) + SumSeq(Tail(s))

Last(s) == s[Len(s)]

Front(s) == SubSeq(s, 1, Len(s) - 1)

Fill(n, v) == [i \in 1..n |-> v]

NonIncreasing(f) == \A i \in 1..(Len(f) - 1) : f[i] >= f[i + 1]

(***************************************************************************)
(* System component specs (module-level constants of the component).       *)
(***************************************************************************)
tankVolume == 3000000
collectorSurfaceArea == 5
volumeOfWaterInCollector == 70000
pumpFlowRateWhenOn == 555
volumeOfWaterNode == 10000

pumpTimeToMoveOneNode == Rat(volumeOfWaterNode, pumpFlowRateWhenOn)

\* Math.round(volume / volumeOfWaterNode)
nodeCountOfVolume(volume) == RoundDiv(volume, volumeOfWaterNode)

\* 0.000001 m^3, the difference assertVolumeIsAMultipleOfNodeVolume accepts
volumeTolerance == 10

\* the construction order with the assertions after the timer is scheduled
ModuleScriptAssertingLast ==
  <<"createState", "setInterval", "assertCollector", "assertTank">>

\* the statements of the module script that read the volumes or create what
\* the ticks use, in the order of the source
ModuleScript == <<"assertCollector", "assertTank", "createState", "setInterval">>

assertVolumeIsAMultipleOfNodeVolumeThrows(volume, nodeCount) ==
  Abs(volume - nodeCount * volumeOfWaterNode) > volumeTolerance

collectorWaterNodeCount == RoundDiv(volumeOfWaterInCollector, volumeOfWaterNode)

tankWaterNodeCount == RoundDiv(tankVolume, volumeOfWaterNode)

pipeWaterNodeCount == 2

ambientAirTemperature == 20 * UnitsPerDegree

initialWaterTemperature == ambientAirTemperature

specificHeatCapacityOfWater == 4186

densityOfWater == 1000

collectorTotalWaterMass ==
  Rat(volumeOfWaterInCollector * densityOfWater, 10000000)

massOfWaterNode == Rat(volumeOfWaterNode * densityOfWater, 10000000)

\* variant: ten times the conductance
conductedHeatPerDegreeTenfold == [num |-> 402060, den |-> 100]

\* (contactAreaOfWaterNodeInTank / heightOfWaterNodeInTank) * deltaTime in J/K:
\* tankHeight = cbrt(0.3) * 3 = 2.0082989 m, contact area 0.3 / tankHeight,
\* node height tankHeight / 300, deltaTime 18.018018 s; 402.0619 to 0.01 J/K.
conductedHeatPerDegree == [num |-> 40206, den |-> 100]

(***************************************************************************)
(* State after construction.                                               *)
(***************************************************************************)
\* the state created with the pump off and the pipes one node long
InitialStateWithPumpOff ==
  [simulationRunning |-> TRUE,
   pumpOn |-> FALSE,
   t |-> 0,
   solarIntensity |-> 1000,
   collectorWaterNodeTemperatures |-> Fill(collectorWaterNodeCount, initialWaterTemperature),
   tankWaterNodeTemperatures |-> Fill(tankWaterNodeCount, initialWaterTemperature),
   upperPipeWaterNodeTemperatures |-> Fill(1, initialWaterTemperature),
   lowerPipeWaterNodeTemperatures |-> Fill(1, initialWaterTemperature)]

InitialState ==
  [simulationRunning |-> TRUE,
   pumpOn |-> TRUE,
   t |-> 0,
   solarIntensity |-> 1000,
   collectorWaterNodeTemperatures |-> Fill(collectorWaterNodeCount, initialWaterTemperature),
   tankWaterNodeTemperatures |-> Fill(tankWaterNodeCount, initialWaterTemperature),
   upperPipeWaterNodeTemperatures |-> Fill(pipeWaterNodeCount, initialWaterTemperature),
   lowerPipeWaterNodeTemperatures |-> Fill(pipeWaterNodeCount, initialWaterTemperature)]

\* the state the module script creates from the volumes of cfg
createState(cfg) ==
  [InitialState EXCEPT
     !.collectorWaterNodeTemperatures =
        Fill(nodeCountOfVolume(cfg.volumeOfWaterInCollector), initialWaterTemperature),
     !.tankWaterNodeTemperatures =
        Fill(nodeCountOfVolume(cfg.tankVolume), initialWaterTemperature)]

\* the binding of state before the module script reaches its declaration
NoState == [created |-> FALSE]

(***************************************************************************)
(* Pump Transport.  Each line is one unshift(pop()) of the source, applied  *)
(* in the source's order to the result of the previous one.                *)
(***************************************************************************)
\* variant: the tank's bottom node is copied to the lower pipe but not removed
pumpOneWaterNodeKeepingTankBottom(s) ==
  [s EXCEPT
     !.collectorWaterNodeTemperatures =
        <<Last(s.lowerPipeWaterNodeTemperatures)>> \o Front(@),
     !.upperPipeWaterNodeTemperatures =
        <<Last(s.collectorWaterNodeTemperatures)>> \o Front(@),
     !.tankWaterNodeTemperatures =
        <<Last(s.upperPipeWaterNodeTemperatures)>> \o @,
     !.lowerPipeWaterNodeTemperatures =
        <<Last(s.tankWaterNodeTemperatures)>> \o Front(@)]

\* variant: the collector gives up its head (shift) instead of its last node
pumpOneWaterNodeShiftingCollector(s) ==
  [s EXCEPT
     !.upperPipeWaterNodeTemperatures =
        <<Last(s.lowerPipeWaterNodeTemperatures)>> \o Front(@),
     !.tankWaterNodeTemperatures =
        <<Last(s.upperPipeWaterNodeTemperatures)>> \o Front(@),
     !.lowerPipeWaterNodeTemperatures =
        <<Last(s.tankWaterNodeTemperatures)>> \o Front(@)]

\* variant: the lower pipe receives a copy of the tank's new top node
pumpOneWaterNodeCopyingTankTop(s) ==
  [s EXCEPT
     !.collectorWaterNodeTemperatures =
        <<Last(s.lowerPipeWaterNodeTemperatures)>> \o Front(@),
     !.upperPipeWaterNodeTemperatures =
        <<Last(s.collectorWaterNodeTemperatures)>> \o Front(@),
     !.tankWaterNodeTemperatures =
        <<Last(s.upperPipeWaterNodeTemperatures)>> \o Front(@),
     !.lowerPipeWaterNodeTemperatures =
        <<Last(s.upperPipeWaterNodeTemperatures)>> \o Front(@)]

pumpOneWaterNode(s) ==
  LET s1 == [s EXCEPT
               !.collectorWaterNodeTemperatures =
                  <<Last(s.lowerPipeWaterNodeTemperatures)>> \o @,
               !.lowerPipeWaterNodeTemperatures = Front(@)]
      s2 == [s1 EXCEPT
               !.upperPipeWaterNodeTemperatures =
                  <<Last(s1.collectorWaterNodeTemperatures)>> \o @,
               !.collectorWaterNodeTemperatures = Front(@)]
      s3 == [s2 EXCEPT
               !.tankWaterNodeTemperatures =
                  <<Last(s2.upperPipeWaterNodeTemperatures)>> \o @,
               !.upperPipeWaterNodeTemperatures = Front(@)]
      s4 == [s3 EXCEPT
               !.lowerPipeWaterNodeTemperatures =
                  <<Last(s3.tankWaterNodeTemperatures)>> \o @,
               !.tankWaterNodeTemperatures = Front(@)]
  IN  s4

(***************************************************************************)
(* Stratification Mixing.                                                  *)
(***************************************************************************)
average(array) == RoundDiv(SumSeq(array), Len(array))

\* array.reduce without an initial value throws a TypeError on an empty array
averageThrows(array) == array = <<>>

\* the slice taken from index n to the end
averageOfFirstNNumbersThrowsSlicingFromN(numbers, n) ==
  averageThrows(SubSeq(numbers, n + 1, Len(numbers)))

averageOfFirstNNumbersThrows(numbers, n) ==
  averageThrows(SubSeq(numbers, 1, Min(n, Len(numbers))))

\* numbers.slice(0, n) clamps n to the array's length
averageOfFirstNNumbers(numbers, n) == average(SubSeq(numbers, 1, Min(n, Len(numbers))))

\* variant: the window's average is compared with the window's own last node
RECURSIVE countOfNodesToMixComparingLast(_, _)
countOfNodesToMixComparingLast(nodes, count) ==
  IF count < Len(nodes) /\ averageOfFirstNNumbers(nodes, count) < nodes[count]
  THEN countOfNodesToMixComparingLast(nodes, count + 1)
  ELSE count

\* variant: the window never grows
countOfNodesToMixNeverGrowing(nodes, count) == count

\* the while loop: grows the window from count while it has not reached the
\* bottom and its average is less than the next node; yields the final count
RECURSIVE countOfNodesToMix(_, _)
countOfNodesToMix(nodes, count) ==
  IF count < Len(nodes) /\ averageOfFirstNNumbers(nodes, count) < nodes[count + 1]
  THEN countOfNodesToMix(nodes, count + 1)
  ELSE count

\* variant: nodes[0] > nodes[1]
TopStrictlyWarmer(nodes) == Len(nodes) >= 2 /\ nodes[1] > nodes[2]

\* nodes[0] >= nodes[1]; false when nodes[1] is undefined
TopNotColder(nodes) == Len(nodes) >= 2 /\ nodes[1] >= nodes[2]

\* variant: the fill stops one node short of the window
mixNodesFillingShort(nodes) ==
  IF TopNotColder(nodes) THEN nodes
  ELSE LET count == countOfNodesToMix(nodes, 2)
           avg == averageOfFirstNNumbers(nodes, count)
       IN  [i \in 1..Len(nodes) |-> IF i < count THEN avg ELSE nodes[i]]

\* variant: the fill not stopping at the end of the array
mixNodesFillingPastEnd(nodes) ==
  IF TopNotColder(nodes) THEN nodes
  ELSE LET count == countOfNodesToMix(nodes, 2)
           avg == averageOfFirstNNumbers(nodes, count)
       IN  [i \in 1..(IF count > Len(nodes) THEN count ELSE Len(nodes)) |->
              IF i <= count THEN avg ELSE nodes[i]]

mixNodes(nodes) ==
  IF TopNotColder(nodes) THEN nodes
  ELSE LET count == countOfNodesToMix(nodes, 2)
           avg == averageOfFirstNNumbers(nodes, count)
       IN  [i \in 1..Len(nodes) |-> IF i <= count THEN avg ELSE nodes[i]]

\* the first average is taken of nodes.slice(0, 2); the later ones of longer,
\* non-empty slices
mixThrows(nodes) == ~TopNotColder(nodes) /\ averageOfFirstNNumbersThrows(nodes, 2)

mixColdWaterOnTopOfTankWithHotWaterBelow(s) ==
  [s EXCEPT !.tankWaterNodeTemperatures = mixNodes(@)]

(***************************************************************************)
(* Solar Heating.                                                          *)
(***************************************************************************)
\* the efficiency clamped at zero
efficiencyOfSolarCollectorClamped(solarCollectorOutputTemperature, ambient) ==
  IF 943 * (solarCollectorOutputTemperature - ambient) > 66000 * UnitsPerDegree
  THEN RInt(0)
  ELSE Rat(-943 * (solarCollectorOutputTemperature - ambient) + 66000 * UnitsPerDegree,
           100000 * UnitsPerDegree)

\* -0.00943 * differenceFromRoomTemp + 0.66, temperatures in units
efficiencyOfSolarCollector(solarCollectorOutputTemperature, ambient) ==
  Rat(-943 * (solarCollectorOutputTemperature - ambient) + 66000 * UnitsPerDegree,
      100000 * UnitsPerDegree)

collectorOutputTemperature(s) == Last(s.collectorWaterNodeTemperatures)

\* the temperature increase of each node, in units
temperatureIncrease(s, deltaTime) ==
  LET energyFromSun == RMul(RInt(s.solarIntensity * collectorSurfaceArea), deltaTime)
      heatAddedToWater ==
        RMul(energyFromSun,
             efficiencyOfSolarCollector(collectorOutputTemperature(s),
                                        ambientAirTemperature))
      increase ==
        RDiv(heatAddedToWater,
             RMul(collectorTotalWaterMass, RInt(specificHeatCapacityOfWater)))
  IN  RRound(RMul(increase, RInt(UnitsPerDegree)))

\* the increase applied only to the outlet node
heatWaterInSolarCollectorAtOutlet(s, deltaTime) ==
  LET inc == temperatureIncrease(s, deltaTime)
  IN  [s EXCEPT !.collectorWaterNodeTemperatures =
                   [i \in 1..Len(@) |-> IF i = Len(@) THEN @[i] + inc ELSE @[i]]]

heatWaterInSolarCollector(s, deltaTime) ==
  LET inc == temperatureIncrease(s, deltaTime)
  IN  [s EXCEPT !.collectorWaterNodeTemperatures =
                   [i \in 1..Len(@) |-> @[i] + inc]]

(***************************************************************************)
(* Vertical Conduction.                                                    *)
(***************************************************************************)
\* the top wall conducting from the ambient air like a node
conductedHeatThroughTopWall(nodes) ==
  [i \in 1..(Len(nodes) + 1) |->
     IF i = Len(nodes) + 1 THEN RInt(0)
     ELSE IF i = 1
          THEN RMul(RInt(ambientAirTemperature - nodes[1]), conductedHeatPerDegree)
          ELSE RMul(RInt(nodes[i - 1] - nodes[i]), conductedHeatPerDegree)]

\* conductedHeat[i] is the heat through the top of node i (1-based) and
\* conductedHeat[length + 1] the heat through the bottom of the last node
conductedHeat(nodes) ==
  [i \in 1..(Len(nodes) + 1) |->
     IF i = 1 \/ i = Len(nodes) + 1 THEN RInt(0)
     ELSE RMul(RInt(nodes[i - 1] - nodes[i]), conductedHeatPerDegree)]

\* the top node updated first, the heat of the others taken from the result
conductNodesTopFirst(nodes) ==
  LET heat == conductedHeat(nodes)
      top ==
        nodes[1] +
          RRound(RDiv(RDiv(RSub(heat[1], heat[2]), massOfWaterNode),
                      RInt(specificHeatCapacityOfWater)))
      later == conductedHeat([i \in 1..Len(nodes) |-> IF i = 1 THEN top ELSE nodes[i]])
  IN  [i \in 1..Len(nodes) |->
         IF i = 1 THEN top
         ELSE nodes[i] +
                RRound(RDiv(RDiv(RSub(later[i], later[i + 1]), massOfWaterNode),
                            RInt(specificHeatCapacityOfWater)))]

conductNodes(nodes) ==
  LET heat == conductedHeat(nodes)
  IN  [i \in 1..Len(nodes) |->
         nodes[i] +
           RRound(RDiv(RDiv(RSub(heat[i], heat[i + 1]), massOfWaterNode),
                       RInt(specificHeatCapacityOfWater)))]

manageHeatConductionAcrossTankWater(s, deltaTime) ==
  [s EXCEPT !.tankWaterNodeTemperatures = conductNodes(@)]

(***************************************************************************)
(* The standalone page.  Its script is the component's script statement    *)
(* for statement, but for the estimate of the tank height (cbrt of the     *)
(* volume times 2, not times 3) and the time dilation of the timer (300,   *)
(* not 400); the tank height enters the conduction only.                   *)
(***************************************************************************)
\* (contactAreaOfWaterNodeInTank / heightOfWaterNodeInTank) * deltaTime in J/K:
\* tankHeight = cbrt(0.3) * 2 = 1.3388659 m, contact area 0.3 / tankHeight,
\* node height tankHeight / 300, deltaTime 18.018018 s; 904.6393 to 0.01 J/K.
pageConductedHeatPerDegree == [num |-> 90464, den |-> 100]

pageConductedHeat(nodes) ==
  [i \in 1..(Len(nodes) + 1) |->
     IF i = 1 \/ i = Len(nodes) + 1 THEN RInt(0)
     ELSE RMul(RInt(nodes[i - 1] - nodes[i]), pageConductedHeatPerDegree)]

pageConductNodes(nodes) ==
  LET heat == pageConductedHeat(nodes)
  IN  [i \in 1..Len(nodes) |->
         nodes[i] +
           RRound(RDiv(RDiv(RSub(heat[i], heat[i + 1]), massOfWaterNode),
                       RInt(specificHeatCapacityOfWater)))]

pageManageHeatConductionAcrossTankWater(s, deltaTime) ==
  [s EXCEPT !.tankWaterNodeTemperatures = pageConductNodes(@)]

\* the page creates its state from the same volumes and temperatures
pageInitialState == InitialState

(***************************************************************************)
(* Tick orchestrator: the interval callback.                               *)
(***************************************************************************)
\* variant: the collector is heated before the water is pumped
TickStepsHeatingFirst(s) ==
  <<"clock", "heat">> \o (IF s.pumpOn THEN <<"pump", "mix">> ELSE <<>>) \o <<"conduct">>

\* the clock statement placed inside the pumpOn branch
TickStepsClockOnlyWhenPumping(s) ==
  (IF s.pumpOn THEN <<"clock", "pump", "mix">> ELSE <<>>) \o <<"heat", "conduct">>

\* the mixing called outside the pumpOn branch
TickStepsAlwaysMixing(s) ==
  <<"clock">> \o (IF s.pumpOn THEN <<"pump">> ELSE <<>>) \o <<"mix", "heat", "conduct">>

\* the statements of the callback's body, in the order it executes them
TickSteps(s) ==
  <<"clock">> \o (IF s.pumpOn THEN <<"pump", "mix">> ELSE <<>>) \o <<"heat", "conduct">>

\* one unshift(pop()) statement of pumpOneWaterNode
pumpStatement(name, s) ==
  CASE name = "pumpCollector" ->
         [s EXCEPT !.collectorWaterNodeTemperatures =
                      <<Last(s.lowerPipeWaterNodeTemperatures)>> \o @,
                   !.lowerPipeWaterNodeTemperatures = Front(@)]
    [] name = "pumpUpperPipe" ->
         [s EXCEPT !.upperPipeWaterNodeTemperatures =
                      <<Last(s.collectorWaterNodeTemperatures)>> \o @,
                   !.collectorWaterNodeTemperatures = Front(@)]
    [] name = "pumpTank" ->
         [s EXCEPT !.tankWaterNodeTemperatures =
                      <<Last(s.upperPipeWaterNodeTemperatures)>> \o @,
                   !.upperPipeWaterNodeTemperatures = Front(@)]
    [] name = "pumpLowerPipe" ->
         [s EXCEPT !.lowerPipeWaterNodeTemperatures =
                      <<Last(s.tankWaterNodeTemperatures)>> \o @,
                   !.tankWaterNodeTemperatures = Front(@)]

PumpStatements == <<"pumpCollector", "pumpUpperPipe", "pumpTank", "pumpLowerPipe">>

\* the statements of the callback's body with those of pumpOneWaterNode in
\* the place of its call
TickStatements(s) ==
  IF ~s.simulationRunning THEN <<>>
  ELSE <<"clock">> \o (IF s.pumpOn THEN PumpStatements \o <<"mix">> ELSE <<>>)
         \o <<"heat", "conduct">>

\* the callback awaiting the first statement of pumpOneWaterNode
TickYieldsAfterPumpingCollector(name) == name = "pumpCollector"

\* the callback gives up the thread after the statement: it is not an async
\* function and awaits nothing
TickYieldsAfter(name) == FALSE

ApplyStep(name, s, deltaTime) ==
  CASE name = "clock" -> [s EXCEPT !.t = @ + deltaTime.num]
    [] name = "pump" -> pumpOneWaterNode(s)
    [] \E k \in DOMAIN PumpStatements : name = PumpStatements[k] ->
         pumpStatement(name, s)
    [] name = "mix" -> mixColdWaterOnTopOfTankWithHotWaterBelow(s)
    [] name = "heat" -> heatWaterInSolarCollector(s, deltaTime)
    [] name = "conduct" -> manageHeatConductionAcrossTankWater(s, deltaTime)

\* the statement throws when run in s; only the mixing has a throwing call
StepThrows(name, s) == name = "mix" /\ mixThrows(s.tankWaterNodeTemperatures)

\* runs the statements of steps in order from s, up to the first that throws
RECURSIVE RunSteps(_, _, _)
RunSteps(steps, s, deltaTime) ==
  IF steps = <<>> THEN s
  ELSE IF StepThrows(Head(steps), s) THEN s
  ELSE RunSteps(Tail(steps), ApplyStep(Head(steps), s, deltaTime), deltaTime)

\* the statements of the page's callback: the component's, with the page's
\* conduction
pageApplyStep(name, s, deltaTime) ==
  IF name = "conduct" THEN pageManageHeatConductionAcrossTankWater(s, deltaTime)
  ELSE ApplyStep(name, s, deltaTime)

RECURSIVE pageRunSteps(_, _, _)
pageRunSteps(steps, s, deltaTime) ==
  IF steps = <<>> THEN s
  ELSE IF StepThrows(Head(steps), s) THEN s
  ELSE pageRunSteps(Tail(steps), pageApplyStep(Head(steps), s, deltaTime), deltaTime)

\* the interval callback of the page
pageControlLoopTick(s) ==
  IF s.simulationRunning
  THEN pageRunSteps(TickSteps(s), s, pumpTimeToMoveOneNode)
  ELSE s

\* the statement is a conduction that leaves a tank ordered from top to bottom
\* with a node colder than the one below it
ConductionInverts(name, s, deltaTime) ==
  /\ name = "conduct"
  /\ NonIncreasing(s.tankWaterNodeTemperatures)
  /\ ~NonIncreasing(ApplyStep(name, s, deltaTime).tankWaterNodeTemperatures)

\* some statement of steps is such a conduction when they are run in order from s
RECURSIVE RunInverts(_, _, _)
RunInverts(steps, s, deltaTime) ==
  IF steps = <<>> THEN FALSE
  ELSE IF StepThrows(Head(steps), s) THEN FALSE
  ELSE \/ ConductionInverts(Head(steps), s, deltaTime)
       \/ RunInverts(Tail(steps), ApplyStep(Head(steps), s, deltaTime), deltaTime)

\* some statement of steps throws when they are run in order from s
RECURSIVE RunThrows(_, _, _)
RunThrows(steps, s, deltaTime) ==
  IF \A i \in 1..Len(steps) : steps[i] # "mix" THEN FALSE
  ELSE IF StepThrows(Head(steps), s) THEN TRUE
  ELSE RunThrows(Tail(steps), ApplyStep(Head(steps), s, deltaTime), deltaTime)

\* variant: the clock advances outside the check of simulationRunning
controlLoopTickAlwaysAdvancingClock(s) ==
  IF s.simulationRunning
  THEN RunSteps(TickSteps(s), s, pumpTimeToMoveOneNode)
  ELSE ApplyStep("clock", s, pumpTimeToMoveOneNode)

\* state.t is counted in 1 / pumpTimeToMoveOneNode.den seconds
controlLoopTick(s) ==
  IF s.simulationRunning
  THEN RunSteps(TickSteps(s), s, pumpTimeToMoveOneNode)
  ELSE s

controlLoopTickThrows(s) ==
  s.simulationRunning /\ RunThrows(TickSteps(s), s, pumpTimeToMoveOneNode)

\* the volumes of the shipped component
ShippedConfig ==
  [tankVolume |-> tankVolume, volumeOfWaterInCollector |-> volumeOfWaterInCollector]

\* the component after its module script has run to the end
Mounted ==
  /\ config = ShippedConfig
  /\ script = <<>>
  /\ interval = "active"
  /\ pending = <<>>
  /\ error = "none"
  /\ ticksWhileRunning = 0
  /\ inverted = FALSE

Init ==
  /\ state = InitialState
  /\ Mounted
  /\ history = <<>>
  /\ lastOp = "init"
  /\ log = <<>>

\* the template is rendered once the module script has run without an error,
\* until the component is unmounted
Rendered == script = <<>> /\ error # "ConfigError" /\ interval # "cleared"

\* a callback of the event loop can start: the module script has ended and
\* every callback in flight has given up the thread
CanStartCallback ==
  script = <<>> /\ \A i \in 1..Len(pending) : pending[i].yielded

\* variant: a cleared timer still delivering its callback
CallbackDueAfterClearing == CanStartCallback /\ interval # "none"

\* the timer can deliver its callback
CallbackDue == CanStartCallback /\ interval = "active"

\* one delivery of the interval callback, run to its end
TickCallback ==
  /\ state' = controlLoopTick(state)
  /\ error' = IF controlLoopTickThrows(state) THEN "TypeError" ELSE error
  /\ ticksWhileRunning' =
       IF state.simulationRunning THEN ticksWhileRunning + 1 ELSE ticksWhileRunning
  /\ inverted' =
       (inverted \/ (state.simulationRunning /\
                       RunInverts(TickSteps(state), state, pumpTimeToMoveOneNode)))
  /\ history' = <<state>>
  /\ lastOp' = "tick"
  /\ log' = IF state.simulationRunning THEN TickSteps(state) ELSE <<>>
  /\ UNCHANGED <<config, script, interval, pending>>

Tick ==
  /\ CallbackDue
  /\ state.t < MaxTicks * pumpTimeToMoveOneNode.num
  /\ TickCallback

\* a delivery among the first MaxEarlyTicks running ones
EarlyTick ==
  /\ CallbackDue
  /\ state.t < MaxEarlyTicks * pumpTimeToMoveOneNode.num
  /\ TickCallback

\* the pause button also switching the pump off
ToggleRunningStoppingPump ==
  /\ CanStartCallback /\ Rendered
  /\ state' = [state EXCEPT !.simulationRunning = ~@, !.pumpOn = FALSE]
  /\ history' = <<state>>
  /\ lastOp' = "toggleRunning"
  /\ log' = <<>>
  /\ UNCHANGED <<config, script, interval, pending, error, ticksWhileRunning, inverted>>

ToggleRunning ==
  /\ CanStartCallback /\ Rendered
  /\ state' = [state EXCEPT !.simulationRunning = ~@]
  /\ history' = <<state>>
  /\ lastOp' = "toggleRunning"
  /\ log' = <<>>
  /\ UNCHANGED <<config, script, interval, pending, error, ticksWhileRunning, inverted>>

TogglePump ==
  /\ CanStartCallback /\ Rendered
  /\ state' = [state EXCEPT !.pumpOn = ~@]
  /\ history' = <<state>>
  /\ lastOp' = "togglePump"
  /\ log' = <<>>
  /\ UNCHANGED <<config, script, interval, pending, error, ticksWhileRunning, inverted>>

\* the host unmounts the component: the hook clears the interval timer
Unmount ==
  /\ CanStartCallback /\ Rendered
  /\ interval = "active"
  /\ interval' = "cleared"
  /\ history' = <<state>>
  /\ lastOp' = "unmount"
  /\ log' = <<>>
  /\ UNCHANGED <<state, config, script, pending, error, ticksWhileRunning, inverted>>

Next == Tick \/ ToggleRunning \/ TogglePump

Spec == Init /\ [][Next]_vars

\* the state before the last operation
prev == history[Len(history)]

(***************************************************************************)
(* The event loop statement by statement: the timer starts a callback, the *)
(* callback runs its statements one at a time, and the buttons and the     *)
(* rendering of the template run when no callback holds the thread.        *)
(***************************************************************************)
StartTick ==
  /\ CallbackDue
  /\ state.t < MaxLoopTicks * pumpTimeToMoveOneNode.num
  /\ pending' = Append(pending, [steps |-> TickStatements(state), yielded |-> FALSE])
  /\ history' = <<state>>
  /\ lastOp' = "startTick"
  /\ log' = <<>>
  /\ UNCHANGED <<state, config, script, interval, error, ticksWhileRunning, inverted>>

\* callback i holds the thread, or takes it when no callback holds it
CanRun(i) == ~pending[i].yielded \/ CanStartCallback

RemoveAt(seq, i) == SubSeq(seq, 1, i - 1) \o SubSeq(seq, i + 1, Len(seq))

StepTick ==
  \E i \in 1..Len(pending) :
    /\ CanRun(i)
    /\ pending[i].steps # <<>>
    /\ LET name == Head(pending[i].steps)
       IN  IF StepThrows(name, state)
           THEN /\ error' = "TypeError"
                /\ pending' = RemoveAt(pending, i)
                /\ UNCHANGED <<state, log>>
           ELSE /\ state' = ApplyStep(name, state, pumpTimeToMoveOneNode)
                /\ pending' = [pending EXCEPT ![i] =
                                 [steps |-> Tail(@.steps),
                                  yielded |-> TickYieldsAfter(name)]]
                /\ log' = Append(log, name)
                /\ UNCHANGED error
    /\ lastOp' = "stepTick"
    /\ inverted' =
         (inverted \/ ConductionInverts(Head(pending[i].steps), state,
                                         pumpTimeToMoveOneNode))
    /\ UNCHANGED <<config, script, interval, history, ticksWhileRunning>>

FinishTick ==
  \E i \in 1..Len(pending) :
    /\ CanRun(i)
    /\ pending[i].steps = <<>>
    /\ pending' = RemoveAt(pending, i)
    /\ ticksWhileRunning' =
         IF prev.simulationRunning THEN ticksWhileRunning + 1 ELSE ticksWhileRunning
    /\ lastOp' = "tick"
    /\ UNCHANGED <<state, config, script, interval, error, history, log, inverted>>

\* the template reads the state to display it
Render ==
  /\ CanStartCallback /\ Rendered
  /\ history' = <<state>>
  /\ lastOp' = "render"
  /\ UNCHANGED <<state, config, script, interval, pending, error, log, ticksWhileRunning, inverted>>

LoopNext ==
  StartTick \/ StepTick \/ FinishTick \/ Render \/ ToggleRunning \/ TogglePump

LoopSpec == Init /\ [][LoopNext]_vars

(***************************************************************************)
(* Stratification Mixing on its own, as the unit test drives it: the tank  *)
(* is set to an input array and the function is called.  Temperatures are  *)
(* multiples of MixUnit, so that every mean of a prefix is exact.          *)
(***************************************************************************)
MixUnit == LCMUpTo(MaxTankLen)

MixTemps == {k * MixUnit : k \in 0..MaxTemp}

MixTanks == UNION {[1..n -> MixTemps] : n \in 1..MaxTankLen}

MixInit ==
  /\ \E input \in MixTanks :
       state = [InitialState EXCEPT !.tankWaterNodeTemperatures = input]
  /\ Mounted
  /\ history = <<>>
  /\ lastOp = "init"
  /\ log = <<>>

ApplyMix ==
  /\ Len(history) < 2
  /\ IF mixThrows(state.tankWaterNodeTemperatures)
     THEN error' = "TypeError" /\ UNCHANGED state
     ELSE state' = mixColdWaterOnTopOfTankWithHotWaterBelow(state) /\ UNCHANGED error
  /\ history' = Append(history, state)
  /\ lastOp' = "mix"
  /\ log' = <<"mix">>
  /\ UNCHANGED <<config, script, interval, pending, ticksWhileRunning, inverted>>

MixNext == ApplyMix

MixSpec == MixInit /\ [][MixNext]_vars

(***************************************************************************)
(* Pump Transport on its own, on rings of any chain lengths.  The nodes of *)
(* the ring are numbered head first through collector, upper pipe, tank    *)
(* and lower pipe; node j carries the temperature j \div d, so that the    *)
(* nodes are all different (d = 1) or equal in pairs (d = 2).              *)
(***************************************************************************)
RingState(nc, nu, nt, nl, d) ==
  [InitialState EXCEPT
     !.collectorWaterNodeTemperatures = [i \in 1..nc |-> i \div d],
     !.upperPipeWaterNodeTemperatures = [i \in 1..nu |-> (nc + i) \div d],
     !.tankWaterNodeTemperatures = [i \in 1..nt |-> (nc + nu + i) \div d],
     !.lowerPipeWaterNodeTemperatures = [i \in 1..nl |-> (nc + nu + nt + i) \div d]]

TotalNodeCount(s) ==
  Len(s.collectorWaterNodeTemperatures) + Len(s.upperPipeWaterNodeTemperatures)
    + Len(s.tankWaterNodeTemperatures) + Len(s.lowerPipeWaterNodeTemperatures)

PumpInit ==
  /\ \E nc \in 1..MaxChainLen, nu \in 1..MaxChainLen,
        nt \in 1..MaxChainLen, nl \in 1..MaxChainLen, d \in {1, 2} :
       state = RingState(nc, nu, nt, nl, d)
  /\ Mounted
  /\ history = <<>>
  /\ lastOp = "init"
  /\ log = <<>>

ApplyPump ==
  /\ Len(history) < TotalNodeCount(state)
  /\ state' = pumpOneWaterNode(state)
  /\ history' = Append(history, state)
  /\ lastOp' = "pump"
  /\ log' = <<"pump">>
  /\ UNCHANGED <<config, script, interval, pending, error, ticksWhileRunning, inverted>>

PumpNext == ApplyPump

PumpSpec == PumpInit /\ [][PumpNext]_vars

(***************************************************************************)
(* Solar Heating on its own, on collectors of any length whose nodes are   *)
(* anywhere between freezing and boiling, the outlet on either side of the *)
(* temperature at which the efficiency changes sign.                       *)
(***************************************************************************)
HeatTemps ==
  {0, 20 * UnitsPerDegree, 60 * UnitsPerDegree, 90 * UnitsPerDegree - 1,
   90 * UnitsPerDegree, 90 * UnitsPerDegree + 1, 100 * UnitsPerDegree,
   120 * UnitsPerDegree}

HeatCollectors == UNION {[1..n -> HeatTemps] : n \in 1..MaxChainLen}

HeatInit ==
  /\ \E input \in HeatCollectors :
       state = [InitialState EXCEPT !.collectorWaterNodeTemperatures = input]
  /\ Mounted
  /\ history = <<>>
  /\ lastOp = "init"
  /\ log = <<>>

ApplyHeat ==
  /\ Len(history) < 2
  /\ state' = heatWaterInSolarCollector(state, pumpTimeToMoveOneNode)
  /\ history' = Append(history, state)
  /\ lastOp' = "heat"
  /\ log' = <<"heat">>
  /\ UNCHANGED <<config, script, interval, pending, error, ticksWhileRunning, inverted>>

HeatNext == ApplyHeat

HeatSpec == HeatInit /\ [][HeatNext]_vars

(***************************************************************************)
(* Vertical Conduction on its own, on the tanks of the mixing above.       *)
(***************************************************************************)
ConductInit ==
  /\ \E input \in MixTanks :
       state = [InitialState EXCEPT !.tankWaterNodeTemperatures = input]
  /\ Mounted
  /\ history = <<>>
  /\ lastOp = "init"
  /\ log = <<>>

ApplyConduct ==
  /\ Len(history) < 2
  /\ state' = manageHeatConductionAcrossTankWater(state, pumpTimeToMoveOneNode)
  /\ history' = Append(history, state)
  /\ lastOp' = "conduct"
  /\ log' = <<"conduct">>
  /\ UNCHANGED <<config, script, interval, pending, error, ticksWhileRunning, inverted>>

ConductNext == ApplyConduct

ConductSpec == ConductInit /\ [][ConductNext]_vars

(***************************************************************************)
(* Construction: the module script run statement by statement on volumes   *)
(* at, next to and far from whole numbers of nodes, followed by the first  *)
(* ticks and toggles.  A volume of at most volumeTolerance makes a chain   *)
(* of no nodes.  The other valid volumes make the chains of the shipped    *)
(* component, whose heat capacities and conductances the ticks use: the    *)
(* tank's differ from the shipped ones by less than the 0.01 J/K they are  *)
(* carried with.                                                           *)
(***************************************************************************)
CollectorVolumes ==
  {0, volumeTolerance, volumeTolerance + 1,
   volumeOfWaterInCollector - (volumeOfWaterNode \div 2),
   volumeOfWaterInCollector - volumeTolerance - 1,
   volumeOfWaterInCollector,
   volumeOfWaterInCollector + (volumeOfWaterNode \div 2)}

TankVolumes ==
  {0, volumeTolerance, volumeTolerance + 1,
   tankVolume - volumeTolerance - 1, tankVolume - (volumeTolerance \div 2),
   tankVolume, tankVolume + (volumeTolerance \div 2),
   tankVolume + volumeTolerance + 1, tankVolume + (volumeOfWaterNode \div 2)}

Configs ==
  [tankVolume : TankVolumes, volumeOfWaterInCollector : CollectorVolumes]

ConfigInit ==
  /\ config \in Configs
  /\ script = ModuleScript
  /\ state = NoState
  /\ interval = "none"
  /\ pending = <<>>
  /\ error = "none"
  /\ ticksWhileRunning = 0
  /\ inverted = FALSE
  /\ history = <<>>
  /\ lastOp = "init"
  /\ log = <<>>

\* the statement throws when run with the volumes of cfg
ScriptStatementThrows(name, cfg) ==
  CASE name = "assertCollector" ->
         assertVolumeIsAMultipleOfNodeVolumeThrows(
           cfg.volumeOfWaterInCollector,
           nodeCountOfVolume(cfg.volumeOfWaterInCollector))
    [] name = "assertTank" ->
         assertVolumeIsAMultipleOfNodeVolumeThrows(
           cfg.tankVolume, nodeCountOfVolume(cfg.tankVolume))
    [] OTHER -> FALSE

\* the next statement of the module script; a throw abandons the rest
RunScript ==
  /\ script # <<>>
  /\ IF ScriptStatementThrows(Head(script), config)
     THEN /\ error' = "ConfigError"
          /\ script' = <<>>
          /\ UNCHANGED <<state, interval>>
     ELSE /\ script' = Tail(script)
          /\ state' = IF Head(script) = "createState" THEN createState(config) ELSE state
          /\ interval' = IF Head(script) = "setInterval" THEN "active" ELSE interval
          /\ UNCHANGED error
  /\ history' = <<state>>
  /\ lastOp' = Head(script)
  /\ log' = <<>>
  /\ UNCHANGED <<config, pending, ticksWhileRunning, inverted>>

ConfigNext == RunScript \/ EarlyTick \/ ToggleRunning \/ TogglePump \/ Unmount

ConfigSpec == ConfigInit /\ [][ConfigNext]_vars

(***************************************************************************)
(* The tick on chains of any lengths and contents under any flags.  The    *)
(* pipes have at least one node; the collector and the tank may have none, *)
(* as volumes within volumeTolerance of zero make them.  Node j of the     *)
(* ring carries j or its mirror image times a scale, so that the chains    *)
(* rise or fall along the ring, by one unit or by ten degrees.             *)
(***************************************************************************)
TickState(nc, nu, nt, nl, scale, rising, running, pumping) ==
  LET total == nc + nu + nt + nl
      temp(j) == (IF rising THEN j ELSE total + 1 - j) * scale
  IN  [InitialState EXCEPT
         !.simulationRunning = running,
         !.pumpOn = pumping,
         !.collectorWaterNodeTemperatures = [i \in 1..nc |-> temp(i)],
         !.upperPipeWaterNodeTemperatures = [i \in 1..nu |-> temp(nc + i)],
         !.tankWaterNodeTemperatures = [i \in 1..nt |-> temp(nc + nu + i)],
         !.lowerPipeWaterNodeTemperatures = [i \in 1..nl |-> temp(nc + nu + nt + i)]]

TickInit ==
  /\ \E nc, nt \in 0..MaxChainLen, nu, nl \in 1..MaxChainLen,
        scale \in {1, 10 * UnitsPerDegree}, rising, running, pumping \in BOOLEAN :
       state = TickState(nc, nu, nt, nl, scale, rising, running, pumping)
  /\ Mounted
  /\ history = <<>>
  /\ lastOp = "init"
  /\ log = <<>>

TickNext == EarlyTick \/ ToggleRunning \/ TogglePump

TickSpec == TickInit /\ [][TickNext]_vars

(***************************************************************************)
(* Stratification Mixing and Vertical Conduction in any order on the tanks *)
(* of the mixing above: after a conduction step the temperatures are off   *)
(* the multiples of MixUnit and a mean is stored to the nearest unit.      *)
(***************************************************************************)
TankNext == ApplyMix \/ ApplyConduct

TankSpec == MixInit /\ [][TankNext]_vars

(***************************************************************************)
(* Vocabulary of the properties.                                           *)
(***************************************************************************)
Collector(s) == s.collectorWaterNodeTemperatures
UpperPipe(s) == s.upperPipeWaterNodeTemperatures
Tank(s) == s.tankWaterNodeTemperatures
LowerPipe(s) == s.lowerPipeWaterNodeTemperatures

SameLengths(a, b) ==
  /\ Len(Collector(a)) = Len(Collector(b))
  /\ Len(UpperPipe(a)) = Len(UpperPipe(b))
  /\ Len(Tank(a)) = Len(Tank(b))
  /\ Len(LowerPipe(a)) = Len(LowerPipe(b))

Range(f) == {f[i] : i \in DOMAIN f}

BagOfSeq(f) == [v \in Range(f) |-> Cardinality({i \in DOMAIN f : f[i] = v})]

BagOfNodes(s) ==
  BagOfSeq(Collector(s)) (+) BagOfSeq(UpperPipe(s))
    (+) BagOfSeq(Tank(s)) (+) BagOfSeq(LowerPipe(s))

SumFirst(f, k) == SumSeq(SubSeq(f, 1, k))

Scaled(f) == [i \in DOMAIN f |-> f[i] * MixUnit]

\* new is old with its head replaced by head and every other node moved one
\* position toward the tail, the former last node dropped
Rotated(new, old, head) ==
  /\ Len(new) = Len(old)
  /\ new[1] = head
  /\ \A i \in 2..Len(old) : new[i] = old[i - 1]

RunningTick == lastOp = "tick" /\ prev.simulationRunning

PumpedPrev == pumpOneWaterNode(prev)

\* the state right after statement name of the last tick
AfterStep(name) ==
  LET i == CHOOSE j \in 1..Len(log) : log[j] = name
  IN  RunSteps(SubSeq(log, 1, i), prev, pumpTimeToMoveOneNode)

(***************************************************************************)
(* C1.  Chain-length invariance: every tick, whatever the flags and the    *)
(* chain contents, leaves the length of each of the four chains as it was, *)
(* so the lengths stay at their initial values after any ticks and toggles.*)
(***************************************************************************)
C1_ChainLengthInvariance ==
  /\ SameLengths(state, InitialState)
  /\ lastOp = "tick" => SameLengths(state, prev)

C1_Witness ==
  /\ RunningTick /\ prev.pumpOn
  /\ Tank(state) # Tank(prev)
  /\ Collector(state) # Collector(prev)
  /\ UpperPipe(state) # UpperPipe(prev)

(***************************************************************************)
(* C2.  Pump Transport is one one-node rotation: the lower pipe's former   *)
(* last node is the collector's head, the collector's former last node the *)
(* upper pipe's head, the upper pipe's former last node the tank's head    *)
(* and the tank's former last node the lower pipe's head; every other node *)
(* keeps its value and moves one position toward the tail of its chain.    *)
(***************************************************************************)
C2_PumpRotation ==
  lastOp = "pump" =>
    /\ Rotated(Collector(state), Collector(prev), Last(LowerPipe(prev)))
    /\ Rotated(UpperPipe(state), UpperPipe(prev), Last(Collector(prev)))
    /\ Rotated(Tank(state), Tank(prev), Last(UpperPipe(prev)))
    /\ Rotated(LowerPipe(state), LowerPipe(prev), Last(Tank(prev)))

C2_Witness ==
  /\ lastOp = "pump"
  /\ Len(Collector(prev)) = 3 /\ Len(Tank(prev)) = 3
  /\ Len(UpperPipe(prev)) = 2 /\ Len(LowerPipe(prev)) = 1
  /\ Collector(state)[1] = Last(LowerPipe(prev))
  /\ Cardinality(Range(Collector(prev) \o UpperPipe(prev)
                         \o Tank(prev) \o LowerPipe(prev))) = 9

(***************************************************************************)
(* C3.  Ring closure: Pump Transport alone leaves the multiset of all node *)
(* temperatures of the four chains unchanged.                              *)
(***************************************************************************)
C3_RingClosure ==
  lastOp = "pump" => BagOfNodes(state) = BagOfNodes(prev)

C3_Witness ==
  /\ lastOp = "pump"
  /\ Len(history) = 2
  /\ state # prev
  /\ BagOfNodes(state) = BagOfNodes(history[1])
  /\ \E v \in DOMAIN BagOfNodes(state) : BagOfNodes(state)[v] = 2

(***************************************************************************)
(* C4.  Stratification Mixing on a tank of length >= 2 whose top node is   *)
(* colder than the second: with k the smallest k >= 2 such that k is the   *)
(* tank length or the mean of the first k nodes is not less than the node  *)
(* below them, the first k nodes become that mean and the nodes below are  *)
(* unchanged; [1,6,6,6,6] gives [5,5,5,5,5], [2,5,5,1,1] gives [4,4,4,1,1] *)
(* and [2,6,4,4,3] gives [4,4,4,4,3].                                      *)
(***************************************************************************)
\* the window of the first k nodes of f stops growing
WindowStops(f, k) == k = Len(f) \/ SumFirst(f, k) >= k * f[k + 1]

MixReference(old, new) ==
  \E k \in 2..Len(old) :
    /\ WindowStops(old, k)
    /\ \A j \in 2..(k - 1) : ~WindowStops(old, j)
    /\ Len(new) = Len(old)
    /\ \A i \in 1..k : k * new[i] = SumFirst(old, k)
    /\ \A i \in (k + 1)..Len(old) : new[i] = old[i]

C4_MixReference ==
  lastOp = "mix" =>
    /\ (Len(Tank(prev)) >= 2 /\ Tank(prev)[1] < Tank(prev)[2])
         => MixReference(Tank(prev), Tank(state))
    /\ Tank(prev) = Scaled(<<1, 6, 6, 6, 6>>) => Tank(state) = Scaled(<<5, 5, 5, 5, 5>>)
    /\ Tank(prev) = Scaled(<<2, 5, 5, 1, 1>>) => Tank(state) = Scaled(<<4, 4, 4, 1, 1>>)
    /\ Tank(prev) = Scaled(<<2, 6, 4, 4, 3>>) => Tank(state) = Scaled(<<4, 4, 4, 4, 3>>)

C4_Witness ==
  /\ lastOp = "mix"
  /\ Tank(prev) = Scaled(<<2, 5, 5, 1, 1>>)
  /\ Tank(state) = Scaled(<<4, 4, 4, 1, 1>>)

(***************************************************************************)
(* C5.  Mixing fast path: when the tank's top node is not colder than the  *)
(* second node, mixing leaves the whole tank unchanged, even if there are  *)
(* inversions deeper in the tank.                                          *)
(***************************************************************************)
C5_MixFastPath ==
  (lastOp = "mix" /\ Len(Tank(prev)) >= 2 /\ Tank(prev)[1] >= Tank(prev)[2])
    => state = prev

C5_Witness ==
  /\ lastOp = "mix"
  /\ Len(history) = 1
  /\ Len(Tank(prev)) >= 3
  /\ Tank(prev)[1] >= Tank(prev)[2]
  /\ Tank(prev)[2] < Tank(prev)[3]
  /\ Tank(state) = Tank(prev)

(***************************************************************************)
(* C6.  Mixing idempotence: mixing twice in a row gives the same tank as   *)
(* mixing once.                                                            *)
(***************************************************************************)
C6_MixIdempotent ==
  (lastOp = "mix" /\ Len(history) = 2) => Tank(state) = Tank(history[2])

C6_Witness ==
  /\ lastOp = "mix"
  /\ Len(history) = 2
  /\ Tank(history[2]) # Tank(history[1])
  /\ Tank(state) = Tank(history[2])
  /\ ~NonIncreasing(Tank(state))

(***************************************************************************)
(* C7.  Post-condition on the mixed prefix: after mixing a tank of length  *)
(* >= 2 the nodes of the mixed window are all equal, the window's value is *)
(* not less than the node just below it when the window did not reach the  *)
(* bottom, and the top node is not colder than the second.                 *)
(***************************************************************************)
C7_MixedPrefix ==
  (lastOp = "mix" /\ Len(Tank(prev)) >= 2) =>
    /\ Tank(state)[1] >= Tank(state)[2]
    /\ Tank(prev)[1] < Tank(prev)[2] =>
         LET k == countOfNodesToMix(Tank(prev), 2)
         IN  /\ \A i \in 1..(k - 1) : Tank(state)[i] = Tank(state)[i + 1]
             /\ k < Len(Tank(state)) => Tank(state)[k] >= Tank(state)[k + 1]

C7_Witness ==
  /\ lastOp = "mix"
  /\ Len(history) = 1
  /\ Len(Tank(prev)) = 5
  /\ Tank(prev)[1] < Tank(prev)[2]
  /\ countOfNodesToMix(Tank(prev), 2) = 3
  /\ Tank(state)[3] > Tank(state)[4]
  /\ Tank(state)[4] < Tank(state)[5]

(***************************************************************************)
(* C8.  Tank monotonic stratification: in every execution from the initial *)
(* state, right after each mixing step the tank temperatures are           *)
(* non-increasing from top to bottom.                                      *)
(***************************************************************************)
C8_TankStratifiedAfterMix ==
  (RunningTick /\ prev.pumpOn) =>
    /\ \E j \in 1..Len(log) : log[j] = "mix"
    /\ NonIncreasing(Tank(AfterStep("mix")))

C8_Witness ==
  /\ RunningTick /\ prev.pumpOn
  /\ ~NonIncreasing(Tank(AfterStep("pump")))
  /\ NonIncreasing(Tank(AfterStep("mix")))
  /\ Tank(AfterStep("mix")) # Tank(AfterStep("pump"))

(***************************************************************************)
(* C9.  A tick delivered while simulationRunning is false is a no-op: the  *)
(* clock, the four chains, the solar intensity and both flags are as       *)
(* before the tick.                                                        *)
(***************************************************************************)
C9_PausedTickIsNoOp ==
  (lastOp = "tick" /\ ~prev.simulationRunning) => state = prev

C9_Witness ==
  /\ lastOp = "tick"
  /\ ~prev.simulationRunning
  /\ prev.t > 0
  /\ Collector(prev) # Collector(InitialState)
  /\ state = prev

(***************************************************************************)
(* C10.  On a tick delivered while simulationRunning is true the sub-steps *)
(* apply in the order clock advance, Pump Transport, Stratification Mixing *)
(* (these two only if pumpOn), Solar Heating, Vertical Conduction: the     *)
(* heating increment is computed from the collector's last node after      *)
(* transport and conduction acts on the tank after transport and mixing.   *)
(***************************************************************************)
Heated(nodes, inc) == [i \in 1..Len(nodes) |-> nodes[i] + inc]

C10_TickOrder ==
  RunningTick =>
    /\ state.t = prev.t + pumpTimeToMoveOneNode.num
    /\ prev.pumpOn =>
         /\ log = <<"clock", "pump", "mix", "heat", "conduct">>
         /\ Collector(state) =
              Heated(Collector(PumpedPrev),
                     temperatureIncrease(PumpedPrev, pumpTimeToMoveOneNode))
         /\ Tank(state) = conductNodes(mixNodes(Tank(PumpedPrev)))
         /\ UpperPipe(state) = UpperPipe(PumpedPrev)
         /\ LowerPipe(state) = LowerPipe(PumpedPrev)
    /\ ~prev.pumpOn =>
         /\ log = <<"clock", "heat", "conduct">>
         /\ Collector(state) =
              Heated(Collector(prev), temperatureIncrease(prev, pumpTimeToMoveOneNode))
         /\ Tank(state) = conductNodes(Tank(prev))
         /\ UpperPipe(state) = UpperPipe(prev)
         /\ LowerPipe(state) = LowerPipe(prev)

C10_Witness ==
  /\ RunningTick /\ prev.pumpOn
  /\ temperatureIncrease(PumpedPrev, pumpTimeToMoveOneNode)
       # temperatureIncrease(prev, pumpTimeToMoveOneNode)
  /\ mixNodes(Tank(PumpedPrev)) # Tank(PumpedPrev)
  /\ conductNodes(mixNodes(Tank(PumpedPrev))) # mixNodes(Tank(PumpedPrev))

(***************************************************************************)
(* C11.  Simulation clock: the clock starts at 0, never decreases, and     *)
(* increases by exactly the fixed step (node volume divided by pump flow   *)
(* rate) on every tick delivered while running is true, whether or not     *)
(* pumpOn is set; so after any sequence of ticks and toggles it equals the *)
(* fixed step times the number of ticks delivered while running.  The      *)
(* clock is counted in 1/111 s, in which the step is the integer 2000.     *)
(***************************************************************************)
FixedStep == (volumeOfWaterNode * pumpTimeToMoveOneNode.den) \div pumpFlowRateWhenOn

C11_SimulationClock ==
  /\ state.t = FixedStep * ticksWhileRunning
  /\ lastOp = "init" => state.t = 0
  /\ lastOp # "init" => state.t >= prev.t
  /\ RunningTick => state.t = prev.t + FixedStep
  /\ lastOp # "init" /\ ~RunningTick => state.t = prev.t

C11_Witness ==
  /\ RunningTick /\ ~prev.pumpOn
  /\ ticksWhileRunning >= 3
  /\ state.t = 3 * FixedStep


(***************************************************************************)
(* C12.  Energy sanity: in one Solar Heating call every collector node     *)
(* changes by the same amount (so differences between collector nodes are  *)
(* preserved), and when the efficiency is positive and irradiance is       *)
(* non-negative no collector node's temperature decreases.                 *)
(***************************************************************************)
HeatCall == lastOp = "heat"

\* 100000 * UnitsPerDegree times the efficiency at the outlet before the call
EfficiencyNumerator ==
  66000 * UnitsPerDegree
    - 943 * (Last(Collector(prev)) - ambientAirTemperature)

C12_EnergySanity ==
  HeatCall =>
    /\ Len(Collector(state)) = Len(Collector(prev))
    /\ \A i, j \in 1..Len(Collector(prev)) :
         /\ Collector(state)[i] - Collector(prev)[i]
              = Collector(state)[j] - Collector(prev)[j]
         /\ Collector(state)[i] - Collector(state)[j]
              = Collector(prev)[i] - Collector(prev)[j]
    /\ EfficiencyNumerator > 0 /\ prev.solarIntensity >= 0 =>
         \A i \in 1..Len(Collector(prev)) : Collector(state)[i] >= Collector(prev)[i]

C12_Witness ==
  /\ HeatCall
  /\ Len(Collector(prev)) = 3
  /\ Collector(prev)[1] > Collector(prev)[3]
  /\ Collector(prev)[2] < Collector(prev)[3]
  /\ EfficiencyNumerator > 0
  /\ Collector(state)[1] > Collector(prev)[1]

(***************************************************************************)
(* C13.  Solar Heating adds to each collector node the amount irradiance x *)
(* collector area x elapsed time x efficiency / (collector water volume x  *)
(* water density x specific heat), where efficiency = -0.00943 x           *)
(* (collector outlet temperature read before the call - ambient            *)
(* temperature) + 0.66 is not clamped: when the outlet temperature makes   *)
(* it negative, every collector node's temperature decreases.  A node      *)
(* stores the amount to the nearest unit, so it decreases once the amount  *)
(* is at least half a unit below zero.                                     *)
(***************************************************************************)
\* collector water volume x water density x specific heat, in J/K
CollectorHeatCapacity ==
  ((volumeOfWaterInCollector * densityOfWater) \div 10000000)
    * specificHeatCapacityOfWater

\* the amount in units is solarIntensity * EfficiencyNumerator / HeatDivisor:
\* collector area x elapsed time is 10000/111 m^2 s, which divides the
\* 100000 of the efficiency's denominator
HeatDivisor ==
  CollectorHeatCapacity * pumpTimeToMoveOneNode.den
    * (100000 \div (collectorSurfaceArea * FixedStep))

C13_HeatingAmount ==
  HeatCall =>
    \A i \in 1..Len(Collector(prev)) :
      LET amount == Collector(state)[i] - Collector(prev)[i]
      IN  /\ Abs(amount * HeatDivisor - prev.solarIntensity * EfficiencyNumerator)
               <= HeatDivisor \div 2
          /\ EfficiencyNumerator < 0 => amount <= 0
          /\ prev.solarIntensity * EfficiencyNumerator <= -(HeatDivisor \div 2)
               => Collector(state)[i] < Collector(prev)[i]

C13_Witness ==
  /\ HeatCall
  /\ Len(Collector(prev)) = 3
  /\ EfficiencyNumerator < 0
  /\ Collector(prev)[1] < Last(Collector(prev))
  /\ \A i \in 1..3 : Collector(state)[i] < Collector(prev)[i]


(***************************************************************************)
(* C14.  Conduction boundary condition: for a tank whose nodes all have    *)
(* the same temperature, one Vertical Conduction step leaves every tank    *)
(* temperature unchanged, for any tank length >= 1.                        *)
(***************************************************************************)
ConductCall == lastOp = "conduct"

Uniform(f) == \A i, j \in 1..Len(f) : f[i] = f[j]

C14_UniformTankUnchanged ==
  ConductCall /\ Len(Tank(prev)) >= 1 /\ Uniform(Tank(prev))
    => Tank(state) = Tank(prev)

C14_Witness ==
  /\ ConductCall
  /\ Len(Tank(prev)) = MaxTankLen
  /\ Uniform(Tank(prev))
  /\ Tank(prev)[1] = 2 * MixUnit
  /\ Tank(state) = Tank(prev)

(***************************************************************************)
(* C15.  Vertical Conduction is a simultaneous update: every tank node's   *)
(* new temperature is its pre-step temperature plus (flux in from the node *)
(* above minus flux out to the node below) divided by (node mass x         *)
(* specific heat), where each flux is computed only from pre-step          *)
(* temperatures as (T[i-1] - T[i]) x (contact area / node height) x        *)
(* elapsed time, and the flux across the top of the top node and the       *)
(* bottom of the bottom node is zero; the result does not depend on the    *)
(* order in which nodes are processed.                                     *)
(***************************************************************************)
\* conductedHeatPerDegree.den times the flux out of the bottom of node i of f,
\* which is the flux into the top of node i + 1; node 0 is the top wall
FluxBelow(f, i) ==
  IF i = 0 \/ i = Len(f) THEN 0
  ELSE (f[i] - f[i + 1]) * conductedHeatPerDegree.num

\* node mass x specific heat, in J/K
NodeHeatCapacity ==
  ((volumeOfWaterNode * densityOfWater) \div 10000000) * specificHeatCapacityOfWater

\* the new temperature of node i from the temperatures f before the step
Conducted(f, i) ==
  f[i] + RoundDiv(FluxBelow(f, i - 1) - FluxBelow(f, i),
                  conductedHeatPerDegree.den * NodeHeatCapacity)

C15_SimultaneousConduction ==
  ConductCall =>
    /\ Len(Tank(state)) = Len(Tank(prev))
    /\ \A i \in 1..Len(Tank(prev)) : Tank(state)[i] = Conducted(Tank(prev), i)

C15_Witness ==
  /\ ConductCall
  /\ Len(Tank(prev)) = MaxTankLen
  /\ \A i \in 1..MaxTankLen : Tank(state)[i] # Tank(prev)[i]
  /\ Tank(prev)[1] > Tank(prev)[2]
  /\ Tank(prev)[2] < Tank(prev)[3]
  /\ Tank(state)[1] < Tank(prev)[1]
  /\ Tank(state)[2] > Tank(prev)[2]


(***************************************************************************)
(* C16.  Configuration validation: construction raises a fatal             *)
(* configuration error exactly when the collector water volume or the tank *)
(* volume differs from (rounded node count x node volume) by more than     *)
(* 1e-6 m^3; the check runs before the simulation state is created and     *)
(* before any tick is scheduled, so no tick ever runs under an invalid     *)
(* configuration and no tick ever raises this error.                       *)
(***************************************************************************)
\* the distance of volume from the nearest whole number of nodes
DistanceFromNodes(volume) ==
  Min(volume % volumeOfWaterNode, volumeOfWaterNode - (volume % volumeOfWaterNode))

\* no volume is more than 1e-6 m^3 from a whole number of nodes; volumes are
\* counted in 1e-7 m^3
ValidConfig(cfg) ==
  /\ DistanceFromNodes(cfg.volumeOfWaterInCollector) <= 10
  /\ DistanceFromNodes(cfg.tankVolume) <= 10

StateCreated == "t" \in DOMAIN state

ConstructionEnded == script = <<>>

C16_ConfigurationValidation ==
  /\ ConstructionEnded => (error = "ConfigError" <=> ~ValidConfig(config))
  /\ error = "ConfigError" => ~ValidConfig(config)
  /\ StateCreated \/ interval # "none" =>
       /\ ValidConfig(config)
       /\ \A i \in 1..Len(script) : script[i] \notin {"assertCollector", "assertTank"}
  /\ ~ValidConfig(config) =>
       /\ ~StateCreated /\ interval = "none"
       /\ lastOp \notin {"tick", "toggleRunning", "togglePump"}
       /\ ticksWhileRunning = 0
  /\ lastOp = "tick" =>
       /\ ValidConfig(config)
       /\ error # "ConfigError"

C16_Witness ==
  /\ ConstructionEnded
  /\ error = "ConfigError"
  /\ lastOp = "assertTank"
  /\ DistanceFromNodes(config.tankVolume) = 11
  /\ DistanceFromNodes(config.volumeOfWaterInCollector) = 10

C16_TickUnderValidConfig ==
  /\ lastOp = "tick"
  /\ ticksWhileRunning = MaxEarlyTicks
  /\ DistanceFromNodes(config.tankVolume) = 5
  /\ Len(Tank(state)) = tankWaterNodeCount


(***************************************************************************)
(* C18.  Initial state: at construction the clock is 0, every node of all  *)
(* four chains is at the initial water temperature (equal to the ambient   *)
(* temperature, 20), the collector has collector volume / node volume      *)
(* nodes, the tank has tank volume / node volume nodes, both pipes have    *)
(* the same fixed count of 2 nodes, and running and pumpOn are both true.  *)
(***************************************************************************)
JustCreated == lastOp = "createState"

AllAt(f, temperature) == \A i \in 1..Len(f) : f[i] = temperature

\* n is volume / node volume, to the 1e-6 m^3 a valid volume may be off by
NodesOfVolume(n, volume) ==
  /\ n * volumeOfWaterNode - volume <= 10
  /\ volume - n * volumeOfWaterNode <= 10

C18_InitialState ==
  JustCreated =>
    /\ state.t = 0
    /\ initialWaterTemperature = ambientAirTemperature
    /\ ambientAirTemperature = 20 * UnitsPerDegree
    /\ AllAt(Collector(state), 20 * UnitsPerDegree)
    /\ AllAt(UpperPipe(state), 20 * UnitsPerDegree)
    /\ AllAt(Tank(state), 20 * UnitsPerDegree)
    /\ AllAt(LowerPipe(state), 20 * UnitsPerDegree)
    /\ NodesOfVolume(Len(Collector(state)), config.volumeOfWaterInCollector)
    /\ NodesOfVolume(Len(Tank(state)), config.tankVolume)
    /\ Len(UpperPipe(state)) = 2
    /\ Len(LowerPipe(state)) = 2
    /\ state.simulationRunning
    /\ state.pumpOn

C18_Witness ==
  /\ JustCreated
  /\ config = ShippedConfig
  /\ Len(Collector(state)) * volumeOfWaterNode = volumeOfWaterInCollector
  /\ Len(Tank(state)) * volumeOfWaterNode = tankVolume
  /\ StateCreated


(***************************************************************************)
(* C17.  Tick totality: under a valid configuration (all four chains       *)
(* non-empty), tick() never raises an error and never reaches an error     *)
(* state, for any values of the flags and any chain contents.              *)
(***************************************************************************)
AllChainsNonEmpty(s) ==
  /\ Len(Collector(s)) >= 1
  /\ Len(UpperPipe(s)) >= 1
  /\ Len(Tank(s)) >= 1
  /\ Len(LowerPipe(s)) >= 1

\* no statement of the last tick met an empty array where it takes an average
NoEmptyAverage ==
  RunningTick /\ prev.pumpOn => Len(Tank(AfterStep("pump"))) >= 1

C17_TickTotality ==
  lastOp = "tick" /\ AllChainsNonEmpty(prev) =>
    /\ error = "none"
    /\ NoEmptyAverage
    /\ AllChainsNonEmpty(state)

C17_Witness ==
  /\ RunningTick /\ prev.pumpOn
  /\ AllChainsNonEmpty(prev)
  /\ Len(Tank(prev)) = 1
  /\ Len(Collector(prev)) = 1
  /\ ~TopNotColder(Tank(PumpedPrev))
  /\ error = "none"

\* the tick that reaches the empty-array error: a tank of no nodes
C17_EmptyTankRaises ==
  /\ RunningTick /\ prev.pumpOn
  /\ Len(Tank(prev)) = 0
  /\ error = "TypeError"


(***************************************************************************)
(* C19.  Control flags are separate from simulation data: the toggle of    *)
(* running and the toggle of pumpOn each negate exactly their own flag and *)
(* leave the other flag, the clock and all four chains unchanged, and      *)
(* tick() never changes either flag.                                       *)
(***************************************************************************)
SameSimulationData(a, b) ==
  /\ a.t = b.t
  /\ Collector(a) = Collector(b)
  /\ UpperPipe(a) = UpperPipe(b)
  /\ Tank(a) = Tank(b)
  /\ LowerPipe(a) = LowerPipe(b)

C19_FlagsSeparate ==
  /\ lastOp = "toggleRunning" =>
       /\ state.simulationRunning = ~prev.simulationRunning
       /\ state.pumpOn = prev.pumpOn
       /\ SameSimulationData(state, prev)
  /\ lastOp = "togglePump" =>
       /\ state.pumpOn = ~prev.pumpOn
       /\ state.simulationRunning = prev.simulationRunning
       /\ SameSimulationData(state, prev)
  /\ lastOp = "tick" =>
       /\ state.simulationRunning = prev.simulationRunning
       /\ state.pumpOn = prev.pumpOn

C19_Witness ==
  /\ lastOp = "toggleRunning"
  /\ state.simulationRunning /\ ~prev.simulationRunning
  /\ state.pumpOn
  /\ state.t = MaxEarlyTicks * FixedStep
  /\ Len(Tank(state)) = MaxChainLen
  /\ Tank(state)[1] # Tank(state)[MaxChainLen]


(***************************************************************************)
(* C20.  Tick atomicity: ticks are never in flight concurrently and each   *)
(* tick runs to completion, so no reader (display or formatting            *)
(* collaborator) and no flag toggle ever observes or interleaves with a    *)
(* state in which some but not all sub-steps of a tick have been applied   *)
(* (for example post-transport but pre-mixing tank values, or a chain      *)
(* whose length is temporarily off by one).                                *)
(***************************************************************************)
TickInFlight == pending # <<>>

\* the last operation was a reader or a toggle
ObserverActed == lastOp \in {"render", "toggleRunning", "togglePump"}

C20_TickAtomicity ==
  /\ Len(pending) <= 1
  /\ TickInFlight =>
       /\ lastOp \in {"startTick", "stepTick"}
       /\ ~pending[1].yielded
       /\ log \o pending[1].steps = TickStatements(prev)
  /\ ObserverActed =>
       /\ ~TickInFlight
       /\ SameLengths(state, InitialState)
       /\ lastOp = "render" => state = prev
  /\ lastOp = "tick" =>
       /\ ~TickInFlight
       /\ log = TickStatements(prev)
       /\ state = controlLoopTick(prev)

\* a state no observer sees: the collector one node too long, the tank not
\* yet pumped or mixed
C20_PartialStateInFlight ==
  /\ TickInFlight
  /\ log = <<"clock", "pumpCollector">>
  /\ Len(Collector(state)) = collectorWaterNodeCount + 1
  /\ state.t = MaxLoopTicks * FixedStep

\* a reader after whole ticks that pumped and mixed heated water into the tank
C20_Witness ==
  /\ lastOp = "render"
  /\ state.t = MaxLoopTicks * FixedStep
  /\ Tank(state)[1] > initialWaterTemperature


(***************************************************************************)
(* C21.  Pump-off frame: on a running tick with pumpOn false no node moves *)
(* between chains and no mixing is applied: both pipe chains are           *)
(* unchanged, the collector changes only by the uniform heating increment, *)
(* and the tank changes only by conduction, even if the tank's top node is *)
(* colder than the node below it.                                          *)
(***************************************************************************)
PumpOffTick == RunningTick /\ ~prev.pumpOn

\* new is old with one amount added to every node
UniformlyShifted(new, old) ==
  /\ Len(new) = Len(old)
  /\ \A i, j \in 1..Len(old) : new[i] - old[i] = new[j] - old[j]

C21_PumpOffFrame ==
  PumpOffTick =>
    /\ UpperPipe(state) = UpperPipe(prev)
    /\ LowerPipe(state) = LowerPipe(prev)
    /\ UniformlyShifted(Collector(state), Collector(prev))
    /\ Len(Tank(state)) = Len(Tank(prev))
    /\ \A i \in 1..Len(Tank(prev)) : Tank(state)[i] = Conducted(Tank(prev), i)
    /\ log = <<"clock", "heat", "conduct">>

C21_Witness ==
  /\ PumpOffTick
  /\ Len(Tank(prev)) = MaxChainLen
  /\ Tank(prev)[1] + 10 * UnitsPerDegree = Tank(prev)[2]
  /\ Tank(state)[1] < Tank(state)[2]
  /\ Tank(state)[1] > Tank(prev)[1]
  /\ Len(Collector(prev)) >= 2
  /\ Collector(state)[1] # Collector(prev)[1]


(***************************************************************************)
(* C22.  Degenerate tank: for a tank of length 1, Stratification Mixing is *)
(* a no-op: it raises no error and leaves the single tank temperature and  *)
(* the tank length unchanged.                                              *)
(***************************************************************************)
MixCall == lastOp = "mix"

C22_DegenerateTank ==
  MixCall /\ Len(Tank(prev)) = 1 =>
    /\ error = "none"
    /\ Len(Tank(state)) = 1
    /\ Tank(state)[1] = Tank(prev)[1]
    /\ state = prev

C22_Witness ==
  /\ MixCall
  /\ Len(history) = 2
  /\ Len(Tank(prev)) = 1
  /\ Tank(prev)[1] = MaxTemp * MixUnit
  /\ Tank(state) = <<MaxTemp * MixUnit>>
  /\ error = "none"


(***************************************************************************)
(* C23.  A configuration that yields a zero-length chain (for example a    *)
(* collector or tank volume that rounds to zero nodes) is rejected as a    *)
(* configuration error at construction, so Pump Transport and              *)
(* Stratification Mixing never run on an empty chain.                      *)
(***************************************************************************)
\* the volume is less than half a node, so that it rounds to no node
RoundsToZeroNodes(volume) == 2 * volume < volumeOfWaterNode

YieldsZeroLengthChain(cfg) ==
  RoundsToZeroNodes(cfg.volumeOfWaterInCollector) \/ RoundsToZeroNodes(cfg.tankVolume)

C23_ZeroLengthChainRejected ==
  /\ ConstructionEnded /\ YieldsZeroLengthChain(config) => error = "ConfigError"
  /\ RunningTick /\ prev.pumpOn => AllChainsNonEmpty(prev)


(***************************************************************************)
(* C24.  Tank heat is only redistributed inside the tank: neither          *)
(* Stratification Mixing nor Vertical Conduction changes the sum of the    *)
(* tank node temperatures, for any tank contents (mixing replaces a window *)
(* by its unweighted mean; conduction's fluxes cancel pairwise and the two *)
(* end fluxes are zero).  A node stores its temperature to the nearest     *)
(* unit: the sum is kept exactly where the mean of the window is a whole   *)
(* number of units, the net heat changes of a conduction step add up to    *)
(* exactly zero, and the stored sum moves by at most half a unit a node.   *)
(***************************************************************************)
RECURSIVE RSum(_)
RSum(seq) ==
  IF seq = <<>> THEN RInt(0)
  ELSE RSub(Head(seq), RSub(RInt(0), RSum(Tail(seq))))

\* conductedHeat[i] - conductedHeat[i + 1], the net heat change of node i
NetHeatChanges(nodes) ==
  [i \in 1..Len(nodes) |-> RSub(conductedHeat(nodes)[i], conductedHeat(nodes)[i + 1])]

\* the mean of the first k nodes of f is a whole number of units
ExactMean(f, k) == SumFirst(f, k) % k = 0

C24_TankHeatRedistributed ==
  /\ MixCall =>
       /\ Len(Tank(state)) = Len(Tank(prev))
       /\ 2 * Abs(SumSeq(Tank(state)) - SumSeq(Tank(prev))) <= Len(Tank(prev))
       /\ ExactMean(Tank(prev), Min(countOfNodesToMix(Tank(prev), 2), Len(Tank(prev)))) =>
            SumSeq(Tank(state)) = SumSeq(Tank(prev))
  /\ ConductCall =>
       /\ Len(Tank(state)) = Len(Tank(prev))
       /\ RSum(NetHeatChanges(Tank(prev))).num = 0
       /\ 2 * Abs(SumSeq(Tank(state)) - SumSeq(Tank(prev))) <= Len(Tank(prev))

C24_Witness ==
  /\ ConductCall
  /\ Len(history) = 2
  /\ Len(Tank(prev)) = MaxTankLen
  /\ Tank(history[1])[1] < Tank(history[1])[2]
  /\ Tank(prev) # Tank(history[1])
  /\ Tank(state) # Tank(prev)
  /\ SumSeq(Tank(prev)) = SumSeq(Tank(history[1]))


(***************************************************************************)
(* C25.  Conduction may reintroduce inversions: in some execution from the *)
(* initial state, a tank that is non-increasing from top to bottom before  *)
(* a Vertical Conduction step has an adjacent pair with T[i] < T[i+1]      *)
(* after that step, and the violation is removed by mixing on the next     *)
(* tick on which the pump is on.                                           *)
(*                                                                         *)
(* The statement as made is C25_ConductionReintroducesInversions: by the   *)
(* time the clock has reached its last tick some conduction has inverted   *)
(* an ordered tank, and every mixing leaves the tank non-increasing.  As   *)
(* amended, C25_ConductionKeepsOrder: in every execution from the initial  *)
(* state a tank that is non-increasing before a Vertical Conduction step   *)
(* is non-increasing after it, so that no conduction has ever inverted an  *)
(* ordered tank.                                                           *)
(***************************************************************************)
\* the tank right before the conduction of the last running tick
TankBeforeConduction == Tank(AfterStep("heat"))

ClockAtLastTick == state.t >= MaxTicks * pumpTimeToMoveOneNode.num

MixingRemovesInversions ==
  RunningTick /\ prev.pumpOn => NonIncreasing(Tank(AfterStep("mix")))

WithinRangeOf(new, old) ==
  \A i \in 1..Len(new) :
    \E j, k \in 1..Len(old) : old[j] <= new[i] /\ new[i] <= old[k]

CoefficientAtMostHalf ==
  2 * conductedHeatPerDegree.num <= conductedHeatPerDegree.den * NodeHeatCapacity

C26_ConductionStable ==
  /\ CoefficientAtMostHalf
  /\ ConductCall =>
       /\ WithinRangeOf(Tank(state), Tank(prev))
       /\ WithinRangeOf(Tank(state), Tank(history[1]))

C26_Witness ==
  /\ ConductCall
  /\ Len(history) = 2
  /\ Len(Tank(state)) = MaxTankLen
  /\ Tank(history[1])[1] < Tank(history[1])[2]
  /\ Tank(history[1])[2] > Tank(history[1])[3]
  /\ Tank(prev)[1] > Tank(history[1])[1]
  /\ Tank(state)[1] > Tank(prev)[1]
  /\ Tank(state)[2] < Tank(prev)[2]
  /\ WithinRangeOf(Tank(state), Tank(prev))



(***************************************************************************)
(* C27.  Cancellation: once the driver is cancelled (the host component is *)
(* unmounted and the interval cleared), no further tick is ever delivered, *)
(* so the clock and all four chains never change again; cancellation       *)
(* itself modifies no simulation state.  With the timer cleared, the       *)
(* unmounting is the last operation there has been, no callback is in      *)
(* flight, and the state is the one the unmounting found.                  *)
(***************************************************************************)
Cancelled == interval = "cleared"

C27_CancellationStopsTicks ==
  Cancelled =>
    /\ lastOp = "unmount"
    /\ pending = <<>>
    /\ state = prev

C27_Witness ==
  /\ Cancelled
  /\ state.t = MaxEarlyTicks * FixedStep
  /\ ticksWhileRunning = MaxEarlyTicks
  /\ Collector(state) # Collector(createState(config))



(***************************************************************************)
(* C28.  Stratification Mixing always terminates: each loop iteration      *)
(* grows the window by exactly one node, the window never exceeds the tank *)
(* length, and the loop therefore performs at most (tank length - 2)       *)
(* growth steps before the overwrite.  The window starts at 2 nodes and    *)
(* ends at MixWindow; the loop continues at every size below the final one *)
(* and stops at the final one.                                             *)
(***************************************************************************)
\* the mixing of the last call went past the shortcut and overwrote the window
WindowOverwritten ==
  MixCall /\ ~TopNotColder(Tank(prev)) /\ ~mixThrows(Tank(prev))

\* the size of the window at the overwrite
MixWindow(nodes) == countOfNodesToMix(nodes, 2)

\* the condition of the while loop with a window of count nodes
LoopContinues(nodes, count) ==
  count < Len(nodes) /\ averageOfFirstNNumbers(nodes, count) < nodes[count + 1]

GrowthSteps(nodes) == MixWindow(nodes) - 2

Ring(s) == Collector(s) \o UpperPipe(s) \o Tank(s) \o LowerPipe(s)

\* ring with every node moved k positions toward the tail, around the end
RotatedBy(ring, k) ==
  [i \in 1..Len(ring) |-> ring[((i - 1 - k) % Len(ring)) + 1]]

PumpCall == lastOp = "pump"

C29_CyclicRotation ==
  PumpCall =>
    /\ SameLengths(state, prev)
    /\ Ring(state) = <<Last(Ring(prev))>> \o Front(Ring(prev))
    /\ Ring(state) = RotatedBy(Ring(history[1]), Len(history))
    /\ Len(history) = TotalNodeCount(state) => state = history[1]

C29_Witness ==
  /\ PumpCall
  /\ Len(history) = TotalNodeCount(state)
  /\ TotalNodeCount(state) = 4 * MaxChainLen
  /\ Cardinality(Range(Ring(state))) = TotalNodeCount(state)
  /\ state # prev
  /\ state = history[1]



(***************************************************************************)
(* C30.  The standalone HTML page's simulation and the Vue component's     *)
(* simulation are the same simulation: started from their initial states   *)
(* and driven by the same sequence of ticks and flag toggles, they pass    *)
(* through the same sequence of states (clock and all four chains'         *)
(* temperatures).  The two start in the same state and the buttons write   *)
(* the same flags, so the sequences are the same exactly when each tick of *)
(* the page takes the state before it to the state the component's tick    *)
(* takes it to.                                                            *)
(***************************************************************************)
PageTicked == pageControlLoopTick(prev)

C30_PageSameSimulation ==
  /\ lastOp = "init" => SameSimulationData(pageInitialState, state)
  /\ lastOp = "tick" => SameSimulationData(PageTicked, state)


====
